---- MODULE Spec2Model ----
(***************************************************************************)
(* Model of the stori-challenge Lambda (src/lambda/main.go): one           *)
(* invocation of HandleRequest, which downloads a CSV of transactions,     *)
(* parses it (readCSV), folds it into a Summaries value (getSummaries)     *)
(* and mails a report (sendEmail).                                         *)
(*                                                                         *)
(* Representation of values                                                *)
(*   - a CSV line is a record [bad, f]: bad says that encoding/csv cannot  *)
(*     decode the line (unbalanced quoting), f is its sequence of fields;  *)
(*   - strings.Split, strconv.Atoi and strconv.ParseFloat are tables over  *)
(*     the strings that occur in the inputs;                               *)
(*   - a float64 is a record [k, hi, c]: k is "num", "nan", "+inf" or      *)
(*     "-inf"; a "num" has the value hi * 2^53 + c / 100.  Below 2^53      *)
(*     (hi = 0) amounts are taken as exact hundredths and their sums as    *)
(*     exact; from 2^53 on, sums are rounded to the float64 grid (round    *)
(*     to nearest, ties to even), as the hardware does.                    *)
(***************************************************************************)
EXTENDS Integers, Sequences, FiniteSets, TLC

\* ------------------------------------------------------------------ bounds
\* longest batch (data rows after the header) of the handler specification
MaxRows == 4
\* longest batch after a header of two fields
MaxShortRows == 2
\* longest record sequence of the permutation specification
MaxPermLen == 3

\* ----------------------------------------------------------------- float64
Num(c) == [k |-> "num", hi |-> 0, c |-> c]
Big(h) == [k |-> "num", hi |-> h, c |-> 0]
NaN == [k |-> "nan", hi |-> 0, c |-> 0]
PosInf == [k |-> "+inf", hi |-> 0, c |-> 0]
NegInf == [k |-> "-inf", hi |-> 0, c |-> 0]

Abs(n) == IF n < 0 THEN -n ELSE n

\* x > 0 and x < 0 on float64: every comparison with NaN is false
FGt0(x) ==
  \/ x.k = "+inf"
  \/ x.k = "num" /\ (x.hi > 0 \/ (x.hi = 0 /\ x.c > 0))

FLt0(x) ==
  \/ x.k = "-inf"
  \/ x.k = "num" /\ (x.hi < 0 \/ (x.hi = 0 /\ x.c < 0))

\* the largest power of two that is at most h (h >= 1)
RECURSIVE Pow2Floor(_)
Pow2Floor(h) == IF h < 2 THEN 1 ELSE 2 * Pow2Floor(h \div 2)

\* spacing of float64 values in the binade of h * 2^53 (h >= 1)
Ulp(h) == 2 * Pow2Floor(h)

\* the float64 nearest to h * 2^53 + c / 100 (h >= 1, c >= 0, c / 100 far
\* below 2^53): c is rounded to a multiple of the spacing, ties going to
\* the even mantissa
RoundToF64(h, c) ==
  LET u == 100 * Ulp(h)
      q == c \div u
      r == c - q * u
      up == \/ 2 * r > u
            \/ 2 * r = u /\ q % 2 = 1
  IN  [k |-> "num", hi |-> h, c |-> IF up THEN (q + 1) * u ELSE q * u]

FNeg(x) ==
  CASE x.k = "num" -> [k |-> "num", hi |-> -x.hi, c |-> -x.c]
    [] x.k = "nan" -> NaN
    [] x.k = "+inf" -> NegInf
    [] x.k = "-inf" -> PosInf

\* float64 addition
FAdd(x, y) ==
  CASE x.k = "nan" \/ y.k = "nan" -> NaN
    [] x.k = "+inf" -> IF y.k = "-inf" THEN NaN ELSE PosInf
    [] x.k = "-inf" -> IF y.k = "+inf" THEN NaN ELSE NegInf
    [] x.k = "num" /\ y.k \in {"+inf", "-inf"} -> y
    [] x.k = "num" /\ y.k = "num" ->
         LET h == x.hi + y.hi
             c == x.c + y.c
         IN  CASE h = 0 -> Num(c)
               [] h > 0 /\ c >= 0 -> RoundToF64(h, c)
               [] h < 0 /\ c <= 0 -> FNeg(RoundToF64(-h, -c))

\* GoRound as floor(x + 0.5): halves go up, not away from zero
GoRoundHalfUp(n, d) == (2 * n + d) \div (2 * d)

\* math.Round(n / d) for integers n and d > 0: truncate, then step away
\* from zero when the discarded fraction is at least one half
GoRound(n, d) ==
  LET t == IF n >= 0 THEN n \div d ELSE -((-n) \div d)
      frac2 == 2 * Abs(n - t * d)
  IN  IF frac2 >= d THEN (IF n >= 0 THEN t + 1 ELSE t - 1) ELSE t

\* math.Round(x*100) / 100 : x is already a whole number of hundredths
Round2(x) ==
  CASE x.k # "num" -> x
    [] x.k = "num" /\ x.hi = 0 -> Num(GoRound(x.c, 1))

\* math.Round(total / float64(count) * 100) / 100
AverageRound2(total, count) ==
  CASE total.k = "nan" -> NaN
    [] total.k \in {"+inf", "-inf"} -> total
    [] total.k = "num" /\ count = 0 ->
         (IF FGt0(total) THEN PosInf ELSE IF FLt0(total) THEN NegInf ELSE NaN)
    [] total.k = "num" /\ count > 0 /\ total.hi = 0 ->
         Num(GoRound(total.c, count))

\* -------------------------------------------------------------- conversions
\* a Go error is a tuple of strings; the nil error is the empty tuple
nil == << >>

\* strings.Split(s, "/") on the date strings that occur in the inputs
Split(s) ==
  CASE s = "7/15" -> <<"7", "15">>
    [] s = "7/28" -> <<"7", "28">>
    [] s = "8/2" -> <<"8", "2">>
    [] s = "8/13" -> <<"8", "13">>
    [] s = "13/5" -> <<"13", "5">>
    [] s = "x/1" -> <<"x", "1">>
    [] OTHER -> <<s>>

\* strconv.Atoi on the month tokens that occur in the inputs
AtoiTable == [s \in {"7", "8", "13"} |-> CASE s = "7" -> 7 [] s = "8" -> 8 [] s = "13" -> 13]

Atoi(s) ==
  IF s \in DOMAIN AtoiTable
  THEN [val |-> AtoiTable[s], err |-> nil]
  ELSE [val |-> 0, err |-> <<"strconv.Atoi: invalid syntax", s>>]

\* strconv.ParseFloat(s, 64) on the amount tokens that occur in the inputs;
\* "NaN" is accepted by ParseFloat and yields a NaN without an error
FloatTokens == {"+60.50", "-10.30", "-20.46", "+10.00", "0", "-0.01", "NaN",
                "9007199254740992", "1", "2"}

ParseFloatTable ==
  [s \in FloatTokens |->
     CASE s = "+60.50" -> Num(6050)
       [] s = "-10.30" -> Num(-1030)
       [] s = "-20.46" -> Num(-2046)
       [] s = "+10.00" -> Num(1000)
       [] s = "0" -> Num(0)
       [] s = "-0.01" -> Num(-1)
       [] s = "NaN" -> NaN
       [] s = "9007199254740992" -> Big(1)
       [] s = "1" -> Num(100)
       [] s = "2" -> Num(200)]

ParseFloat(s) ==
  IF s \in FloatTokens
  THEN [val |-> ParseFloatTable[s], err |-> nil]
  ELSE [val |-> Num(0), err |-> <<"strconv.ParseFloat: invalid syntax", s>>]

\* the months table set up by main()
MonthNames == <<"January", "February", "March", "April", "May", "June", "July",
                "August", "September", "October", "November", "December">>

\* months[i]: a Go map yields the zero value "" for a missing key
months(i) == IF i \in 1..12 THEN MonthNames[i] ELSE ""

\* ------------------------------------------------------------------ types
\* Summaries{}: the zero value; a nil map reads as an empty map
EmptyMap == [m \in {} |-> 0]

ZeroSummaries ==
  [CreditCount |-> 0, CreditTotal |-> Num(0),
   DebitCount |-> 0, DebitTotal |-> Num(0),
   MonthlyTransactions |-> EmptyMap]

TransactionCSV(r) == [ID |-> r[1], Date |-> r[2], Transaction |-> r[3]]

\* ---------------------------------------------------------------- getMonth
getMonth(s) ==
  LET split == Split(s)
      intStr == split[1]
      a == Atoi(intStr)
  IN  IF a.err # nil
      THEN [month |-> "", err |-> a.err]
      ELSE [month |-> months(a.val), err |-> nil]

\* ------------------------------------------------------------ getSummaries
\* Incr that drops a month that has no name
IncrNamedOnly(m, key) ==
  IF key = "" THEN m
  ELSE IF key \in DOMAIN m
  THEN [m EXCEPT ![key] = @ + 1]
  ELSE [x \in DOMAIN m \cup {key} |-> IF x = key THEN 1 ELSE m[x]]

\* monthTotals[month]++
Incr(m, key) ==
  IF key \in DOMAIN m
  THEN [m EXCEPT ![key] = @ + 1]
  ELSE [x \in DOMAIN m \cup {key} |-> IF x = key THEN 1 ELSE m[x]]

\* Classify with amt >= 0 for amt > 0: a zero amount counts as a credit
ClassifyZeroAsCredit(sm, amt) ==
  LET c == IF FGt0(amt) \/ amt = Num(0)
           THEN [sm EXCEPT !.CreditCount = @ + 1,
                           !.CreditTotal = FAdd(@, amt)]
           ELSE sm
  IN  IF FLt0(amt)
      THEN [c EXCEPT !.DebitCount = @ + 1,
                     !.DebitTotal = FAdd(@, amt)]
      ELSE c

\* Classify with = for += : a total holds the last amount of its bucket
ClassifyOverwrite(sm, amt) ==
  LET c == IF FGt0(amt)
           THEN [sm EXCEPT !.CreditCount = @ + 1, !.CreditTotal = amt]
           ELSE sm
  IN  IF FLt0(amt)
      THEN [c EXCEPT !.DebitCount = @ + 1, !.DebitTotal = amt]
      ELSE c

\* the credit / debit classification of one parsed amount
Classify(sm, amt) ==
  LET c == IF FGt0(amt)
           THEN [sm EXCEPT !.CreditCount = @ + 1,
                           !.CreditTotal = FAdd(@, amt)]
           ELSE sm
  IN  IF FLt0(amt)
      THEN [c EXCEPT !.DebitCount = @ + 1,
                     !.DebitTotal = FAdd(@, amt)]
      ELSE c

\* one iteration of the loop over ts: acc holds the locals sm and
\* monthTotals, and err once an iteration has returned early
LoopBody(acc, t) ==
  LET gm == getMonth(t.Date)
      mt == Incr(acc.monthTotals, gm.month)
      pf == ParseFloat(t.Transaction)
  IN  IF gm.err # nil
      THEN [acc EXCEPT !.err = gm.err]
      ELSE IF pf.err # nil
           THEN [acc EXCEPT !.monthTotals = mt, !.err = pf.err]
           ELSE [sm |-> Classify(acc.sm, pf.val), monthTotals |-> mt,
                 err |-> nil]

LoopInit == [sm |-> ZeroSummaries, monthTotals |-> EmptyMap, err |-> nil]

\* the locals after the loop has run over ts, or has returned early
RECURSIVE Loop(_, _)
Loop(acc, s) ==
  IF s = << >> \/ acc.err # nil
  THEN acc
  ELSE Loop(LoopBody(acc, Head(s)), Tail(s))

\* Return that hands back the accumulator with the error
ReturnPartial(acc) ==
  [sums |-> [acc.sm EXCEPT !.MonthlyTransactions = acc.monthTotals],
   err |-> acc.err]

\* what getSummaries returns from the locals acc
Return(acc) ==
  IF acc.err # nil
  THEN [sums |-> ZeroSummaries, err |-> acc.err]
  ELSE [sums |-> [acc.sm EXCEPT !.MonthlyTransactions = acc.monthTotals],
        err |-> nil]

getSummaries(s) == Return(Loop(LoopInit, s))

\* ----------------------------------------------------------------- readCSV
\* index of the first data line that csv.Reader.ReadAll rejects, 0 if none:
\* a line it cannot decode, or one whose number of fields differs from the
\* header's (FieldsPerRecord = 0 takes the count of the first record read)
FirstRejected(f) ==
  LET rej == {j \in 2..Len(f) : f[j].bad \/ Len(f[j].f) # Len(f[1].f)}
  IN  IF rej = {} THEN 0 ELSE CHOOSE j \in rej : \A k \in rej : j <= k

readCSV(f) ==
  IF f = << >>
  THEN [ts |-> << >>, err |-> <<"EOF">>, panic |-> FALSE]
  ELSE IF f[1].bad
  THEN [ts |-> << >>, err |-> <<"parse error">>, panic |-> FALSE]
  ELSE IF FirstRejected(f) # 0
  THEN [ts |-> << >>, err |-> nil, panic |-> FALSE]
  ELSE IF \E j \in 2..Len(f) : Len(f[j].f) < 3
  THEN [ts |-> << >>, err |-> nil, panic |-> TRUE]
  ELSE [ts |-> [j \in 1..(Len(f) - 1) |-> TransactionCSV(f[j + 1].f)],
        err |-> nil, panic |-> FALSE]

\* --------------------------------------------------------------- sendEmail
\* the value handed to the template
Report(s) ==
  [Total |-> Round2(FAdd(s.CreditTotal, s.DebitTotal)),
   MonthlyTransactions |-> s.MonthlyTransactions,
   CreditAverage |-> AverageRound2(s.CreditTotal, s.CreditCount),
   DebitAverage |-> AverageRound2(s.DebitTotal, s.DebitCount)]

\* ------------------------------------------------------------------ inputs
Line(fields) == [bad |-> FALSE, f |-> fields]
BadLine == [bad |-> TRUE, f |-> << >>]

HeaderFull == Line(<<"Id", "Date", "Transaction">>)
HeaderShort == Line(<<"Id", "Date">>)

RowA1 == Line(<<"0", "7/15", "+60.50">>)
RowA2 == Line(<<"1", "7/28", "-10.30">>)
RowA3 == Line(<<"2", "8/2", "-20.46">>)
RowA4 == Line(<<"3", "8/13", "+10.00">>)

DataLines ==
  {RowA1, RowA2, RowA3, RowA4,
   Line(<<"4", "7/15", "0">>),
   Line(<<"5", "13/5", "-0.01">>),
   Line(<<"6", "x/1", "abc">>),
   Line(<<"7", "8/2", "abc">>),
   Line(<<"8", "8/13", "NaN">>),
   Line(<<"9", "7/28">>),
   BadLine}

SeqsUpTo(S, n) == UNION {[1..m -> S] : m \in 0..n}

\* the objects that may be uploaded: nothing at all, the full header
\* followed by at most n data lines, or the short header followed by at
\* most k data lines
Files(n, k) ==
  {<< >>}
    \cup {<<HeaderFull>> \o d : d \in SeqsUpTo(DataLines, n)}
    \cup {<<HeaderShort>> \o d : d \in SeqsUpTo(DataLines, k)}

\* records of the permutation specification
PermRecords ==
  {TransactionCSV(<<"0", "7/15", "9007199254740992">>),
   TransactionCSV(<<"1", "7/28", "1">>),
   TransactionCSV(<<"2", "8/2", "2">>),
   TransactionCSV(<<"3", "8/13", "-10.30">>),
   TransactionCSV(<<"4", "7/15", "0">>),
   TransactionCSV(<<"5", "13/5", "-0.01">>),
   TransactionCSV(<<"6", "8/2", "abc">>)}

Permutation(s, p) == [j \in 1..Len(s) |-> s[p[j]]]

Bijections(n) == Permutations(1..n)

\* ------------------------------------------------------------------- state
VARIABLES
  file,         \* the content of the file under /tmp, once downloaded
  pc,           \* position of the invocation
  ts,           \* the records readCSV returned
  idx,          \* getSummaries: index of the next record of the loop
  loc,          \* getSummaries: the locals sm, monthTotals (and err)
  sums,         \* the Summaries getSummaries returned
  err,          \* the error of the last call
  ret,          \* what HandleRequest returned
  data,         \* sendEmail: the value rendered by the template
  outbox,       \* the messages smtp.SendMail delivered
  other,        \* permutation specification: a reordering of ts
  sumsOther     \* permutation specification: getSummaries(other)

vars == <<file, pc, ts, idx, loc, sums, err, ret, data, outbox, other, sumsOther>>

NoData == [Total |-> Num(0), MonthlyTransactions |-> EmptyMap,
           CreditAverage |-> Num(0), DebitAverage |-> Num(0)]

NoResult == [sums |-> ZeroSummaries, err |-> nil]

Init ==
  /\ file = << >>
  /\ pc = "getFile"
  /\ ts = << >>
  /\ idx = 1
  /\ loc = LoopInit
  /\ sums = ZeroSummaries
  /\ err = nil
  /\ ret = ""
  /\ data = NoData
  /\ outbox = << >>
  /\ other = << >>
  /\ sumsOther = NoResult

\* HandleRequest, lines 56-59: getFile fails, or downloads the uploaded
\* object, whatever it holds, into the file
GetFile ==
  /\ pc = "getFile"
  /\ \/ /\ pc' = "returned"
        /\ err' = <<"getFile">>
        /\ ret' = "ERROR"
        /\ UNCHANGED file
     \/ /\ file' \in Files(MaxRows, MaxShortRows)
        /\ pc' = "readCSV"
        /\ UNCHANGED <<err, ret>>
  /\ UNCHANGED <<ts, idx, loc, sums, data, outbox, other, sumsOther>>

\* HandleRequest, lines 61-64
ReadCSV ==
  /\ pc = "readCSV"
  /\ LET r == readCSV(file)
     IN  IF r.panic
         THEN /\ pc' = "panicked"
              /\ UNCHANGED <<ts, err, ret>>
         ELSE IF r.err # nil
         THEN /\ pc' = "returned"
              /\ err' = r.err
              /\ ret' = "ERROR"
              /\ ts' = r.ts
         ELSE /\ pc' = "getSummaries"
              /\ ts' = r.ts
              /\ UNCHANGED <<err, ret>>
  /\ UNCHANGED <<file, idx, loc, sums, data, outbox, other, sumsOther>>

\* getSummaries: one iteration of the loop; an iteration that fails returns
\* at once, and HandleRequest returns with it (lines 65-68)
GetSummariesLoop ==
  /\ pc = "getSummaries"
  /\ idx <= Len(ts)
  /\ LET n == LoopBody(loc, ts[idx])
     IN  /\ loc' = n
         /\ idx' = idx + 1
         /\ IF n.err # nil
            THEN /\ sums' = Return(n).sums
                 /\ err' = Return(n).err
                 /\ ret' = "ERROR"
                 /\ pc' = "returned"
            ELSE UNCHANGED <<sums, err, ret, pc>>
  /\ UNCHANGED <<file, ts, data, outbox, other, sumsOther>>

\* getSummaries: the loop is over, lines 144-146
GetSummariesReturn ==
  /\ pc = "getSummaries"
  /\ idx > Len(ts)
  /\ sums' = Return(loc).sums
  /\ pc' = "sendEmail"
  /\ UNCHANGED <<file, ts, idx, loc, err, ret, data, outbox, other, sumsOther>>

\* sendEmail and the end of HandleRequest (lines 71-75): the secret is
\* fetched or not, the report is rendered, the transport delivers or not
SendEmail ==
  /\ pc = "sendEmail"
  /\ \E secretOk, smtpOk \in BOOLEAN :
       IF ~secretOk
       THEN /\ err' = <<"secret">>
            /\ ret' = "ERROR"
            /\ UNCHANGED <<data, outbox>>
       ELSE /\ data' = Report(sums)
            /\ IF smtpOk
               THEN /\ outbox' = Append(outbox, Report(sums))
                    /\ ret' = "out"
                    /\ UNCHANGED err
               ELSE /\ err' = <<"smtp">>
                    /\ ret' = "ERROR"
                    /\ UNCHANGED outbox
  /\ pc' = "returned"
  /\ UNCHANGED <<file, ts, idx, loc, sums, other, sumsOther>>

Next ==
  \/ GetFile
  \/ ReadCSV
  \/ GetSummariesLoop
  \/ GetSummariesReturn
  \/ SendEmail

Spec == Init /\ [][Next]_vars

\* ------------------------------------------- the permutation specification
InitPerm ==
  /\ ts \in SeqsUpTo(PermRecords, MaxPermLen)
  /\ \E p \in Bijections(Len(ts)) : other = Permutation(ts, p)
  /\ pc = "aggregate"
  /\ file = << >>
  /\ idx = 1
  /\ loc = LoopInit
  /\ sums = ZeroSummaries
  /\ err = nil
  /\ ret = ""
  /\ data = NoData
  /\ outbox = << >>
  /\ sumsOther = NoResult

\* getSummaries is applied to the sequence and to its reordering
Aggregate ==
  /\ pc = "aggregate"
  /\ sums' = getSummaries(ts).sums
  /\ err' = getSummaries(ts).err
  /\ sumsOther' = getSummaries(other)
  /\ pc' = "aggregated"
  /\ UNCHANGED <<file, ts, idx, loc, ret, data, outbox, other>>

NextPerm == Aggregate

SpecPerm == InitPerm /\ [][NextPerm]_vars

\* ================================================================== claims
\* what the input is, independently of what readCSV makes of it
HeaderDecodes == file # << >> /\ ~file[1].bad

DataDecodes == \A j \in 2..Len(file) : ~file[j].bad

DataShaped == \A j \in 2..Len(file) : ~file[j].bad => Len(file[j].f) >= 3

IsNumber(x) == x.k = "num"

Defined(r) == IsNumber(r.Total) /\ IsNumber(r.CreditAverage) /\ IsNumber(r.DebitAverage)

\* the month token of a record and what the conversions make of it
MonthToken(t) == Split(t.Date)[1]

MonthUnparseable(t) == Atoi(MonthToken(t)).err # nil

AmountUnparseable(t) == ParseFloat(t.Transaction).err # nil

MonthOutOfRange(t) == ~MonthUnparseable(t) /\ Atoi(MonthToken(t)).val \notin 1..12

Amount(t) == ParseFloat(t.Transaction).val

ZeroAmount(t) == ~AmountUnparseable(t) /\ Amount(t) = Num(0)

\* the error of the first conversion that fails on record t
ErrorOf(t) ==
  IF MonthUnparseable(t) THEN Atoi(MonthToken(t)).err ELSE ParseFloat(t.Transaction).err

IsConversionError(e) ==
  e # nil /\ e[1] \in {"strconv.Atoi: invalid syntax", "strconv.ParseFloat: invalid syntax"}

RECURSIVE SumValues(_, _)
SumValues(m, keys) ==
  IF keys = {} THEN 0
  ELSE LET k == CHOOSE x \in keys : TRUE
       IN  m[k] + SumValues(m, keys \ {k})

Count(m, key) == IF key \in DOMAIN m THEN m[key] ELSE 0

\* C1: a report is delivered only if retrieval, parsing and aggregation all
\* succeeded on the batch: the header and every data line decoded, every data
\* row had its three fields, and the delivered report holds no undefined
\* value.
C1_DeliveryOnlyAfterSuccess ==
  outbox # << >> =>
    /\ HeaderDecodes
    /\ DataDecodes
    /\ DataShaped
    /\ \A i \in 1..Len(outbox) : Defined(outbox[i])

\* C2: readCSV does not return successfully when a data row has fewer than
\* three fields or a data line cannot be decoded, and aggregation does not
\* start on such an input.
C2_ReadCSVFailsOnMalformedRows ==
  pc \in {"getSummaries", "sendEmail"} => DataDecodes /\ DataShaped

\* C3: getSummaries does not succeed on a batch holding a record whose month
\* number is outside 1..12, and no Summary has the empty month name as a key.
C3_OutOfRangeMonthFails ==
  pc = "sendEmail" =>
    /\ \A j \in 1..Len(ts) : ~MonthOutOfRange(ts[j])
    /\ "" \notin DOMAIN sums.MonthlyTransactions

\* C4: getSummaries takes the records in input order; it stops at the first
\* record whose month token or amount does not parse, and returns that
\* record's error with an empty Summary; it succeeds only if no record fails.
C4_FirstFailureAborts ==
  LET failing == {j \in 1..Len(ts) : MonthUnparseable(ts[j]) \/ AmountUnparseable(ts[j])}
  IN  /\ pc = "getSummaries" => \A j \in 1..(idx - 1) : j \notin failing
      /\ pc = "sendEmail" => failing = {}
      /\ (pc = "returned" /\ IsConversionError(err)) =>
           /\ idx - 1 \in failing
           /\ \A j \in 1..(idx - 2) : j \notin failing
           /\ err = ErrorOf(ts[idx - 1])
           /\ sums = ZeroSummaries
      /\ (pc = "returned" /\ failing # {}) => sums = ZeroSummaries /\ outbox = << >>

\* C4 witness: the third record fails on its amount after a credit and a
\* debit were counted, and the Summary returned is empty.
C4_Witness ==
  /\ pc = "returned"
  /\ IsConversionError(err)
  /\ idx = 4
  /\ loc.sm.CreditCount = 1
  /\ loc.sm.DebitCount = 1
  /\ AmountUnparseable(ts[3])
  /\ sums = ZeroSummaries

\* C5: while the fold runs, creditCount + debitCount is at most the number
\* of records processed, and equals it when none of them has a zero amount.
C5_CountsMatchRecords ==
  (pc \in {"getSummaries", "sendEmail"} /\ loc.err = nil) =>
    /\ loc.sm.CreditCount + loc.sm.DebitCount <= idx - 1
    /\ (\A j \in 1..(idx - 1) : ~ZeroAmount(ts[j])) =>
         loc.sm.CreditCount + loc.sm.DebitCount = idx - 1

\* C6: one successful iteration of the fold adds 1 to the count of the
\* record's month and to no other month; a zero amount leaves the four
\* credit and debit fields as they were, a positive amount changes only the
\* credit count and total, a negative amount only the debit count and total.
C6_RecordFrame ==
  [][(pc = "getSummaries" /\ idx <= Len(ts) /\ idx' = idx + 1 /\ loc'.err = nil) =>
       LET t == ts[idx]
           amt == Amount(t)
           month == months(Atoi(MonthToken(t)).val)
           old == loc.sm
           new == loc'.sm
       IN  /\ Count(loc'.monthTotals, month) = Count(loc.monthTotals, month) + 1
           /\ \A k \in DOMAIN loc'.monthTotals \ {month} :
                k \in DOMAIN loc.monthTotals /\ loc'.monthTotals[k] = loc.monthTotals[k]
           /\ ZeroAmount(t) => new = old
           /\ (IsNumber(amt) /\ amt.c > 0) =>
                /\ new.CreditCount = old.CreditCount + 1
                /\ new.CreditTotal = Num(old.CreditTotal.c + amt.c)
                /\ new.DebitCount = old.DebitCount
                /\ new.DebitTotal = old.DebitTotal
           /\ (IsNumber(amt) /\ amt.c < 0) =>
                /\ new.DebitCount = old.DebitCount + 1
                /\ new.DebitTotal = Num(old.DebitTotal.c + amt.c)
                /\ new.CreditCount = old.CreditCount
                /\ new.CreditTotal = old.CreditTotal]_vars

\* C6 witness: the second record has amount 0; it was counted in its month
\* and in neither bucket.
C6_Witness ==
  /\ pc = "getSummaries"
  /\ idx = 3
  /\ loc.err = nil
  /\ ZeroAmount(ts[2])
  /\ loc.sm.CreditCount + loc.sm.DebitCount = 1
  /\ SumValues(loc.monthTotals, DOMAIN loc.monthTotals) = 2

\* C7: in a delivered report the average of a bucket whose count is 0 is a
\* defined value, never the NaN or infinity of a division by zero.
C7_ZeroCountAverageGuarded ==
  \A i \in 1..Len(outbox) :
    /\ sums.CreditCount = 0 => IsNumber(outbox[i].CreditAverage)
    /\ sums.DebitCount = 0 => IsNumber(outbox[i].DebitAverage)

\* r is n / d rounded to the nearest integer, halves away from zero
IsRoundHalfAway(r, n, d) ==
  /\ 2 * Abs(r * d - n) <= d
  /\ 2 * Abs(r * d - n) = d => Abs(r * d) > Abs(n)

ScenarioA == <<HeaderFull, RowA1, RowA2, RowA3, RowA4>>

\* C8: with both counts positive, the delivered report has the balance
\* creditTotal + debitTotal and the averages total / count, in hundredths
\* rounded half away from zero, and the Summary's monthly counts; the four
\* rows of scenario A give the Summary and the Report of the scenario.
C8_ReportValues ==
  \A i \in 1..Len(outbox) :
    LET r == outbox[i]
    IN  /\ (sums.CreditCount > 0 /\ sums.DebitCount > 0) =>
             /\ r.Total = Num(sums.CreditTotal.c + sums.DebitTotal.c)
             /\ IsNumber(r.CreditAverage)
             /\ IsRoundHalfAway(r.CreditAverage.c, sums.CreditTotal.c, sums.CreditCount)
             /\ IsNumber(r.DebitAverage)
             /\ IsRoundHalfAway(r.DebitAverage.c, sums.DebitTotal.c, sums.DebitCount)
             /\ r.MonthlyTransactions = sums.MonthlyTransactions
        /\ file = ScenarioA =>
             /\ sums.CreditCount = 2
             /\ sums.CreditTotal = Num(7050)
             /\ sums.DebitCount = 2
             /\ sums.DebitTotal = Num(-3076)
             /\ DOMAIN sums.MonthlyTransactions = {"July", "August"}
             /\ sums.MonthlyTransactions["July"] = 2
             /\ sums.MonthlyTransactions["August"] = 2
             /\ r.Total = Num(3974)
             /\ r.CreditAverage = Num(3525)
             /\ r.DebitAverage = Num(-1538)

\* C8 witness: the report of scenario A has been delivered.
C8_Witness == file = ScenarioA /\ Len(outbox) = 1 /\ outbox[1].Total = Num(3974)

\* the sums of the credits and of the debits of s, as exact pairs <<hi, c>>
RECURSIVE ExactTotals(_)
ExactTotals(s) ==
  IF s = << >> THEN [credit |-> <<0, 0>>, debit |-> <<0, 0>>]
  ELSE LET rest == ExactTotals(SubSeq(s, 1, Len(s) - 1))
           a == Amount(s[Len(s)])
       IN  IF IsNumber(a) /\ FGt0(a)
           THEN [rest EXCEPT !.credit = <<@[1] + a.hi, @[2] + a.c>>]
           ELSE IF IsNumber(a) /\ FLt0(a)
           THEN [rest EXCEPT !.debit = <<@[1] + a.hi, @[2] + a.c>>]
           ELSE rest

\* a pair <<hi, c>> of one sign that is a float64
Representable(p) ==
  \/ p[1] = 0
  \/ RoundToF64(Abs(p[1]), Abs(p[2])).c = Abs(p[2])

\* no partial sum of the fold over s is rounded
ExactSums(s) ==
  \A n \in 0..Len(s) :
    /\ Representable(ExactTotals(SubSeq(s, 1, n)).credit)
    /\ Representable(ExactTotals(SubSeq(s, 1, n)).debit)

C10_MonthCountsSumToN ==
  /\ (pc = "getSummaries" /\ loc.err = nil) =>
       SumValues(loc.monthTotals, DOMAIN loc.monthTotals) = idx - 1
  /\ pc = "sendEmail" =>
       SumValues(sums.MonthlyTransactions, DOMAIN sums.MonthlyTransactions) = Len(ts)

\* C10 witness: a successful batch holding a zero amount, a NaN amount and a
\* month number that has no name.
C10_Witness ==
  /\ pc = "sendEmail"
  /\ Len(ts) = 4
  /\ \E j \in 1..Len(ts) : ZeroAmount(ts[j])
  /\ \E j \in 1..Len(ts) : Amount(ts[j]) = NaN
  /\ \E j \in 1..Len(ts) : MonthOutOfRange(ts[j])
  /\ "" \in DOMAIN sums.MonthlyTransactions

====
